---- MODULE Spec2Model ----
(***************************************************************************)
(* libpool: a fixed-chunk-size pool allocator with an intrusive free list. *)
(*                                                                         *)
(* The model follows src/src/libpool.c (pool_new, pool_resize, pool_close, *)
(* pool_alloc, pool_free).  Memory is a set of blocks obtained from the    *)
(* backing allocator; a block is an array of chunks and every chunk is     *)
(* split in two cells: `w', its first pointer-sized bytes (next-pointer    *)
(* while free, user data while allocated) and `rest', the other            *)
(* chunk_sz - sizeof(void* ) bytes.  A pointer is a block id and a byte    *)
(* offset in the block.                                                    *)
(*                                                                         *)
(* The caller is modelled by `live' (the pointers it holds), `shadow'      *)
(* (what it expects to find in them) and a record of its calls.            *)
(***************************************************************************)
EXTENDS Integers, Sequences, FiniteSets, TLC

PtrSize == 8

\* Width of size_t in the model (scaled down); byte counts are computed
\* modulo 2^SizeBits.
SizeBits == 8

SizeMod == 2 ^ SizeBits

\* Largest pool_sz passed to pool_new.
MaxPoolSz == 3

\* Largest number of chunks a pool is grown to.
MaxCap == 3

\* Chunk sizes tried are PtrSize \div 2 and the multiples of PtrSize up to
\* MaxChunkWords * PtrSize.
MaxChunkWords == 2

\* Number of distinct values the caller writes into its chunks.
MaxData == 2

\* Number of successful growth calls on one pool.
MaxGrow == 2

\* pool_resize calls of a caller that keeps growing one pool.
MaxResize == 3

\* Largest pool_sz passed to pool_new by a caller that tries large pools:
\* with 8-byte chunks, above SizeMod \div PtrSize.
MaxNewSz == 33

\* Threads that share one pool.
NumThreads == 2

\* pool_alloc calls each thread makes.
MaxAllocs == 2

\* Largest pool_sz of a shared pool.
MaxSharedSz == 4

\* pool_expand calls the expanding thread makes on the shared pool.
MaxExpand == 1

VARIABLES
    phase,        \* "none": no pool yet; "open"; "closed"; "ub": undefined
                  \* behaviour left the pool's own memory; "hung"
    variant,      \* the build: "resize" (src/src/libpool.c) or "expand"
    obs,          \* what the caller keeps notes of: "calls" or "data";
                  \* "threads": the callers are threads sharing the pool;
                  \* "long": the caller keeps growing its pool;
                  \* "misuse": the caller also frees what it has freed
    free_chunk,   \* Pool.free_chunk
    chunk_arr,    \* Pool.chunk_arr (block id, 0 when there is no pool)
    pool_sz,      \* Pool.pool_sz
    chunk_sz,     \* Pool.chunk_sz
    array_starts, \* expand build: the tracked backing blocks, newest first
    mem,          \* block id -> [bytes, cells]: the live backing arrays
    nextblk,      \* the id the next backing array gets
    heap,         \* every block pool_ext_alloc gave out for the pool, with
                  \* the number of times it was given to pool_ext_free
    live,         \* caller: pointers obtained from pool_alloc, not yet freed
    shadow,       \* caller: contents it expects in each live chunk
    cap,          \* caller: chunks the pool was created / grown to
    last,         \* caller: its most recent call and what it returned
    ep,           \* caller: the series of pool_alloc / pool_free calls it is in
    mutex,        \* thread-safe build: 0, or the thread holding the mutex
    thr           \* the threads: where each is in its call, what it holds

tvars == <<mutex, thr>>

vars == <<tvars, phase, variant, obs, free_chunk, chunk_arr, pool_sz, chunk_sz,
          array_starts, mem, nextblk, heap, live, shadow, cap, last, ep>>

poolvars == <<free_chunk, chunk_arr, pool_sz, chunk_sz, array_starts, mem,
              nextblk>>

-----------------------------------------------------------------------------
(* Words: what a pointer-sized cell (or the rest of a chunk) can hold.     *)

Ptr(b, o) == [k |-> "ptr", blk |-> b, off |-> o]

NULL == Ptr(0, 0)

Data(d) == [k |-> "data", blk |-> 0, off |-> d]

\* The indeterminate contents of memory that was never written.
Junk == [k |-> "junk", blk |-> 0, off |-> 0]

\* The `rest' cell of a chunk that is exactly one pointer wide.
NoRest == [k |-> "none", blk |-> 0, off |-> 0]

ChunkSizes == {PtrSize \div 2} \cup {k * PtrSize : k \in 1..MaxChunkWords}

\* pool_sz * chunk_sz as size_t.
ByteSize(n, sz) == (n * sz) % SizeMod

\* The array pool_ext_alloc(bytes) returns: `bytes' bytes, never written.
FreshBlock(bytes, sz) ==
    [bytes |-> bytes,
     cells |-> [i \in 1..(bytes \div sz) |->
                  [w |-> Junk, rest |-> IF sz > PtrSize THEN Junk ELSE NoRest]]]

\* p addresses a whole chunk of a live backing array of memory m.
InBlock(m, p, sz) ==
    /\ p.k = "ptr"
    /\ p.blk \in DOMAIN m
    /\ p.off % sz = 0
    /\ p.off + sz <= m[p.blk].bytes

CellOf(p, sz) == (p.off \div sz) + 1

\* *(void** )p
Load(m, p, sz) == m[p.blk].cells[CellOf(p, sz)].w

LinkCellsShort(cells, b, lo, hi, sz) ==
    [i \in DOMAIN cells |->
        IF i - 1 >= lo /\ i - 1 < hi - 1
          THEN [cells[i] EXCEPT !.w = Ptr(b, i * sz)]
          ELSE IF i - 1 >= lo /\ i - 1 <= hi
                 THEN [cells[i] EXCEPT !.w = NULL]
                 ELSE cells[i]]

\* The loop that threads the free list through chunks lo .. hi (0-based) of
\* block b: chunk i points to chunk i + 1 and chunk hi holds NULL.
LinkCells(cells, b, lo, hi, sz) ==
    [i \in DOMAIN cells |->
        IF i - 1 >= lo /\ i - 1 < hi
          THEN [cells[i] EXCEPT !.w = Ptr(b, i * sz)]
          ELSE IF i - 1 = hi
                 THEN [cells[i] EXCEPT !.w = NULL]
                 ELSE cells[i]]

\* The chunks met when following next-pointers from p, at most `fuel' of them.
RECURSIVE Walk(_, _, _, _)
Walk(m, p, sz, fuel) ==
    IF fuel = 0 \/ p = NULL \/ ~InBlock(m, p, sz)
      THEN <<>>
      ELSE <<p>> \o Walk(m, Load(m, p, sz), sz, fuel - 1)

\* More chunks than any pool of the model has.
Fuel == MaxCap + MaxPoolSz + 2

FreeList == IF phase = "open" THEN Walk(mem, free_chunk, chunk_sz, Fuel)
            ELSE <<>>

Range(s) == {s[i] : i \in DOMAIN s}

\* What the chunk at p holds.
Contents(m, p, sz) == m[p.blk].cells[CellOf(p, sz)]

-----------------------------------------------------------------------------
(* The caller's record of a call: the operation, its arguments (n, sz, p),  *)
(* what it returned (ok, ret), how many times it called pool_ext_alloc      *)
(* (calls) and the kinds of the blocks it gave to pool_ext_free, in that    *)
(* order (order; rel is their number).  A caller that keeps notes of its    *)
(* data only records the operation and whether it succeeded.                *)

Call(op, n, sz, p, ok, ret, calls, rel) ==
    IF obs \in {"calls", "misuse"}
      THEN [op |-> op, n |-> n, sz |-> sz, p |-> p, ok |-> ok, ret |-> ret,
            calls |-> calls, rel |-> Len(rel), order |-> rel]
      ELSE [op |-> op, n |-> 0, sz |-> 0, p |-> NULL, ok |-> ok, ret |-> NULL,
            calls |-> 0, rel |-> 0, order |-> <<>>]

NoCall == [op |-> "none", n |-> 0, sz |-> 0, p |-> NULL, ok |-> FALSE,
           ret |-> NULL, calls |-> 0, rel |-> 0, order |-> <<>>]

(* The series of calls the caller is in.  It starts ("A") with the call      *)
(* that created or grew the pool (start, arg, and the numbers nfree and     *)
(* nlive of free and live chunks before that call), or with a first         *)
(* pool_alloc (start "any"), and goes on with pool_alloc calls: c counts    *)
(* them, marked holds what they returned and n = |marked|.  Then ("F") the  *)
(* caller frees marked chunks, in any order, and once all are freed ("B")   *)
(* it calls pool_alloc again, c counting these calls.  Anything else ends   *)
(* the series ("off").                                                      *)

Episode(ph, start, arg, nfree, nlive, marked, n, c) ==
    [ph |-> ph, start |-> start, arg |-> arg, nfree |-> nfree,
     nlive |-> nlive, marked |-> marked, n |-> n, c |-> c]

NoEp == Episode("off", "none", 0, 0, 0, {}, 0, 0)

\* Calls are counted up to RunCap.
RunCap == MaxCap + 2

Bump(c) == IF c < RunCap THEN c + 1 ELSE c

\* The series after the pool was created or grown by `start'.
EpStart(start, arg) ==
    IF obs = "calls"
      THEN Episode("A", start, arg, Len(FreeList), Cardinality(live), {}, 0, 0)
      ELSE NoEp

\* The series after pool_alloc returned r.
EpAlloc(r) ==
    IF obs # "calls" THEN NoEp
    ELSE IF ep.ph = "A" /\ (r = NULL \/ r \notin live) THEN
        [ep EXCEPT !.marked = IF r = NULL THEN @ ELSE @ \cup {r},
                   !.n = IF r = NULL THEN @ ELSE @ + 1,
                   !.c = Bump(@)]
    ELSE IF ep.ph = "F" /\ ep.marked = {} THEN
        [ep EXCEPT !.ph = "B", !.c = 1]
    ELSE IF ep.ph = "B" THEN
        [ep EXCEPT !.c = Bump(@)]
    ELSE IF r # NULL /\ r \notin live THEN
        Episode("A", "any", 0, 0, 0, {r}, 1, 1)
    ELSE NoEp

\* The series after pool_free(pool, p).
EpFree(p) ==
    IF obs = "calls" /\ ep.ph \in {"A", "F"} /\ p \in ep.marked
      THEN [ep EXCEPT !.ph = "F", !.marked = @ \ {p}, !.c = 0]
      ELSE NoEp

Threads == 1..NumThreads

\* A thread: pc is "idle" between calls, else the step of the call it is in;
\* reg is the pointer the call works on; held are the chunks it got from
\* pool_alloc and has not freed; att and succ count its pool_alloc calls
\* that got the mutex and those that returned a chunk; exp counts its
\* pool_expand calls; res is what its last call returned.
ThreadInit ==
    [pc |-> "idle", reg |-> NULL, held |-> {}, att |-> 0, succ |-> 0,
     exp |-> 0, res |-> "none"]

InitCommon ==
    /\ mutex = 0
    /\ thr = [t \in Threads |-> ThreadInit]
    /\ phase = "none"
    /\ variant \in {"resize", "expand"}
    /\ free_chunk = NULL
    /\ chunk_arr = 0
    /\ pool_sz = 0
    /\ chunk_sz = 0
    /\ array_starts = <<>>
    /\ mem = << >>
    /\ nextblk = 1
    /\ heap = << >>
    /\ live = {}
    /\ shadow = << >>
    /\ cap = 0
    /\ last = NoCall
    /\ ep = NoEp

Init == InitCommon /\ obs = "calls"

InitData == InitCommon /\ obs = "data"

-----------------------------------------------------------------------------
(* The Pool* a caller passes: NULL or the pool that pool_new returned.      *)

NullPool == "NULL"

ThePool == "pool"

Pools == {NullPool, ThePool}

\* A call is made with the pool while it is open and, by a caller that keeps
\* notes of its calls, with NULL at any time.
Callable(pool) ==
    /\ pool \in Pools
    /\ phase \in {"none", "open", "closed"}
    /\ pool = ThePool => phase = "open"
    /\ pool = NullPool => obs = "calls"

PoolIsNullNever(pool) == FALSE

\* pool == NULL
PoolIsNull(pool) == pool = NullPool

-----------------------------------------------------------------------------
(* The blocks obtained from the backing allocator: the Pool structure, a   *)
(* chunk array (by its id) and, in the expand build, the record that tracks *)
(* a chunk array.                                                           *)

PoolBlk == [kind |-> "pool", id |-> 0]

ArrBlk(b) == [kind |-> "arr", id |-> b]

RecBlk(b) == [kind |-> "rec", id |-> b]

\* pool_ext_alloc returned block x.  h[x] is 0 while x is outstanding; when
\* an address is handed out again after its release the count starts over.
Obtain(h, x) ==
    IF x \in DOMAIN h THEN [h EXCEPT ![x] = @ - 1] ELSE (x :> 0) @@ h

\* pool_ext_free(x)
Release(h, x) ==
    IF x \in DOMAIN h THEN [h EXCEPT ![x] = @ + 1] ELSE (x :> 2) @@ h

\* Every block was given back exactly once.
AllReleasedOnce(h) == \A x \in DOMAIN h : h[x] = 1

-----------------------------------------------------------------------------
(* pool_new(n, sz).  okPool, okArr and okRec tell whether pool_ext_alloc    *)
(* succeeds for the Pool structure, the chunk array and (expand build) the  *)
(* record of the array; okMutex whether the mutex of a thread-safe expand   *)
(* build is initialised.                                                    *)

\* The chunk size rounded up to the next multiple of the pointer size, as the
\* README describes the default build.
AlignUp(sz) == ((sz + PtrSize - 1) \div PtrSize) * PtrSize

NewInvalidNoZero(n, sz) == sz < PtrSize

NewInvalidNoSmall(n, sz) == n = 0

\* pool_sz == 0 || chunk_sz < sizeof(void* )
NewInvalid(n, sz) == n = 0 \/ sz < PtrSize

UnwindPoolSkip(h) == h

\* pool_ext_free(pool) when the chunk array could not be allocated
UnwindPool(h) == Release(h, PoolBlk)

pool_new(n, sz, okPool, okArr, okRec, okMutex) ==
    /\ phase = "none"
    /\ variant = "resize" => okRec /\ okMutex
    /\ LET bytes == ByteSize(n, sz)
           blk   == FreshBlock(bytes, sz)
           tracked == variant = "expand"
           h1    == Obtain(heap, PoolBlk)
           h2    == Obtain(h1, ArrBlk(nextblk))
           h3    == IF tracked THEN Obtain(h2, RecBlk(nextblk)) ELSE h2
           rec(ok, calls, rel) ==
               Call("new", n, sz, NULL, ok, NULL, calls, rel)
       IN
       IF NewInvalid(n, sz) THEN
            /\ last' = rec(FALSE, 0, <<>>)
            /\ ep' = NoEp
            /\ UNCHANGED <<phase, poolvars, heap, cap>>
       ELSE IF ~okPool THEN
            /\ last' = rec(FALSE, 1, <<>>)
            /\ ep' = NoEp
            /\ UNCHANGED <<phase, poolvars, heap, cap>>
       ELSE IF ~okArr THEN
            /\ last' = rec(FALSE, 2, <<"pool">>)
            /\ heap' = UnwindPool(h1)
            /\ ep' = NoEp
            /\ UNCHANGED <<phase, poolvars, cap>>
       ELSE IF ~okRec THEN
            /\ last' = rec(FALSE, 3, <<"arr", "pool">>)
            /\ heap' = Release(Release(h2, ArrBlk(nextblk)), PoolBlk)
            /\ ep' = NoEp
            /\ UNCHANGED <<phase, poolvars, cap>>
       ELSE IF ~okMutex THEN
            /\ last' = rec(FALSE, 3, <<"arr", "rec", "pool">>)
            /\ heap' = Release(Release(Release(h3, ArrBlk(nextblk)),
                                       RecBlk(nextblk)), PoolBlk)
            /\ ep' = NoEp
            /\ UNCHANGED <<phase, poolvars, cap>>
       ELSE IF n > Len(blk.cells) THEN
            \* the list is threaded past the end of the array
            /\ phase' = "ub"
            /\ last' = rec(TRUE, 2, <<>>)
            /\ heap' = h3
            /\ ep' = NoEp
            /\ UNCHANGED <<poolvars, cap>>
       ELSE
            /\ phase' = "open"
            /\ free_chunk' = Ptr(nextblk, 0)
            /\ chunk_arr' = nextblk
            /\ pool_sz' = n
            /\ chunk_sz' = sz
            /\ array_starts' = IF tracked THEN <<nextblk>> ELSE <<>>
            /\ mem' = (nextblk :> [blk EXCEPT
                          !.cells = LinkCells(blk.cells, nextblk, 0, n - 1, sz)])
            /\ nextblk' = nextblk + 1
            /\ heap' = h3
            /\ cap' = n
            /\ last' = rec(TRUE, IF tracked THEN 3 ELSE 2, <<>>)
            /\ ep' = EpStart("new", n)
    /\ UNCHANGED <<tvars, variant, obs, live, shadow>>

-----------------------------------------------------------------------------
(* pool_alloc(pool)                                                         *)

HeadEmptyNever(head) == FALSE

HeadEmptyAlways(head) == TRUE

\* pool->free_chunk == NULL
HeadEmpty(head) == head = NULL

AllocNextSkip(m, head, sz) ==
    LET next == Load(m, head, sz)
    IN IF InBlock(m, next, sz) THEN Load(m, next, sz) ELSE next

\* *(void** )pool->free_chunk, the new head
AllocNext(m, head, sz) == Load(m, head, sz)

pool_alloc(pool) ==
    /\ Callable(pool)
    /\ IF PoolIsNull(pool) THEN
            /\ last' = Call("alloc_null", 0, 0, NULL, FALSE, NULL, 0, <<>>)
            /\ ep' = NoEp
            /\ UNCHANGED <<phase, poolvars, live, shadow>>
       ELSE IF pool = NullPool THEN
            \* pool->free_chunk with pool NULL
            /\ phase' = "ub"
            /\ last' = Call("alloc_null", 0, 0, NULL, FALSE, NULL, 0, <<>>)
            /\ ep' = NoEp
            /\ UNCHANGED <<poolvars, live, shadow>>
       ELSE IF HeadEmpty(free_chunk) THEN
            /\ last' = Call("alloc", 0, 0, NULL, FALSE, NULL, 0, <<>>)
            /\ ep' = EpAlloc(NULL)
            /\ UNCHANGED <<phase, poolvars, live, shadow>>
       ELSE IF ~InBlock(mem, free_chunk, chunk_sz) THEN
            \* the head does not address a chunk of the pool
            /\ phase' = "ub"
            /\ last' = Call("alloc", 0, 0, NULL, TRUE, free_chunk, 0, <<>>)
            /\ ep' = NoEp
            /\ UNCHANGED <<poolvars, live, shadow>>
       ELSE LET result == free_chunk
                next   == AllocNext(mem, free_chunk, chunk_sz)
            IN
            /\ free_chunk' = (IF next.k = "ptr" THEN next ELSE Ptr(-1, 0))
            /\ live' = live \cup {result}
            /\ shadow' = [p \in live' |->
                            IF p = result THEN Contents(mem, result, chunk_sz)
                            ELSE shadow[p]]
            /\ last' = Call("alloc", 0, 0, NULL, TRUE, result, 0, <<>>)
            /\ ep' = EpAlloc(result)
            /\ UNCHANGED <<phase, chunk_arr, pool_sz, chunk_sz, array_starts,
                           mem, nextblk>>
    /\ UNCHANGED <<tvars, variant, obs, heap, cap>>

-----------------------------------------------------------------------------
(* pool_free(pool, ptr) of a pointer the caller holds, or of NULL.          *)

FreeLinkBase(m, ptr, head, sz) ==
    [m EXCEPT ![ptr.blk].cells[1].w = head]

\* *(void** )ptr = pool->free_chunk
FreeLink(m, ptr, head, sz) ==
    [m EXCEPT ![ptr.blk].cells[CellOf(ptr, sz)].w = head]

FreeHeadKeep(ptr, head) == IF head = NULL THEN ptr ELSE head

\* pool->free_chunk = ptr
FreeHead(ptr, head) == ptr

FreeIgnoredNoPtr(pool, ptr) == pool = NullPool

\* pool == NULL || ptr == NULL
FreeIgnored(pool, ptr) == pool = NullPool \/ ptr = NULL

\* The pointer a careless caller may pass again: the one it has just freed.
Freed == IF obs = "misuse" /\ last.op = "free" THEN {last.p} ELSE {}

pool_free(pool, ptr) ==
    /\ Callable(pool)
    /\ ptr \in live \cup {NULL} \cup Freed
    /\ ptr = NULL => obs = "calls"
    /\ IF FreeIgnored(pool, ptr) THEN
            /\ last' = Call("free_null", 0, 0, ptr, TRUE, NULL, 0, <<>>)
            /\ ep' = NoEp
            /\ UNCHANGED <<phase, poolvars, live, shadow>>
       ELSE IF pool = NullPool \/ ptr = NULL THEN
            \* a store through NULL
            /\ phase' = "ub"
            /\ last' = Call("free_null", 0, 0, ptr, TRUE, NULL, 0, <<>>)
            /\ ep' = NoEp
            /\ UNCHANGED <<poolvars, live, shadow>>
       ELSE IF ~InBlock(mem, ptr, chunk_sz) THEN
            /\ phase' = "ub"
            /\ last' = Call("free", 0, 0, ptr, TRUE, NULL, 0, <<>>)
            /\ ep' = EpFree(ptr)
            /\ UNCHANGED <<poolvars, live, shadow>>
       ELSE
            /\ mem' = FreeLink(mem, ptr, free_chunk, chunk_sz)
            /\ free_chunk' = FreeHead(ptr, free_chunk)
            /\ live' = live \ {ptr}
            /\ shadow' = [p \in live' |-> shadow[p]]
            /\ last' = Call("free", 0, 0, ptr, TRUE, NULL, 0, <<>>)
            /\ ep' = EpFree(ptr)
            /\ UNCHANGED <<phase, chunk_arr, pool_sz, chunk_sz, array_starts,
                           nextblk>>
    /\ UNCHANGED <<tvars, variant, obs, heap, cap>>

-----------------------------------------------------------------------------
(* The caller stores d in a chunk it holds (every byte of the chunk).       *)

user_write(ptr, d) ==
    /\ phase = "open"
    /\ obs = "data"
    /\ ptr \in live
    /\ InBlock(mem, ptr, chunk_sz)
    /\ LET c == [w |-> Data(d),
                 rest |-> IF chunk_sz > PtrSize THEN Data(d) ELSE NoRest]
       IN /\ c # Contents(mem, ptr, chunk_sz)
          /\ mem' = [mem EXCEPT ![ptr.blk].cells[CellOf(ptr, chunk_sz)] = c]
          /\ shadow' = [shadow EXCEPT ![ptr] = c]
    /\ last' = Call("write", 0, 0, NULL, TRUE, NULL, 0, <<>>)
    /\ UNCHANGED <<tvars, phase, variant, obs, free_chunk, chunk_arr, pool_sz,
                   chunk_sz, array_starts, nextblk, heap, live, cap, ep>>

-----------------------------------------------------------------------------
(* pool_resize(pool, new_pool_sz).  ok tells whether pool_ext_alloc         *)
(* succeeds.  `land' is where the store through the uninitialized off_next  *)
(* goes when the loop over the old free list never ran: land > 0 is the     *)
(* first word of chunk `land' of the new array, land < 0 the rest of chunk  *)
(* -land, and 0 a place outside the new array.                              *)

\* The old array's first n chunks copied over the start of the new cells.
Memcpy(new, old, n) ==
    [i \in DOMAIN new |-> IF i <= n /\ i \in DOMAIN old THEN old[i] ELSE new[i]]

\* The loop over the old free list `path': the copy of every node but the
\* last gets the address its successor has in the new array nb.
Translate(cells, path, nb, sz) ==
    [i \in DOMAIN cells |->
        IF \E j \in 1..(Len(path) - 1) : CellOf(path[j], sz) = i
          THEN LET j == CHOOSE j \in 1..(Len(path) - 1) :
                            CellOf(path[j], sz) = i
               IN [cells[i] EXCEPT !.w = Ptr(nb, path[j + 1].off)]
          ELSE cells[i]]

\* *(void** )(new_arr + off_next) = first_new_chunk, with off_next given as a
\* landing place.
StoreLast(cells, land, v) ==
    IF land > 0 THEN [cells EXCEPT ![land].w = v]
    ELSE [cells EXCEPT ![-land].rest = v]

\* The caller goes on using its chunks at the same offsets of the new array.
Rebase(p, nb) == Ptr(nb, p.off)

AllocFailedNever(ok) == FALSE

\* new_arr == NULL
AllocFailed(ok) == ~ok

FreeOldSkip(h, arr) == h

\* pool_ext_free(pool->chunk_arr), the old array
FreeOld(h, arr) == Release(h, ArrBlk(arr))

\* The growth calls the caller makes on one pool.
GrowLimit == IF obs = "long" THEN MaxResize ELSE MaxGrow

pool_resize(new_pool_sz, ok, land) ==
    /\ phase = "open"
    /\ variant = "resize"
    /\ nextblk <= GrowLimit + 1
    /\ LET old_byte_size   == ByteSize(pool_sz, chunk_sz)
           nb              == nextblk
           blk             == FreshBlock(ByteSize(new_pool_sz, chunk_sz),
                                         chunk_sz)
           old             == mem[chunk_arr].cells
           copied          == Memcpy(blk.cells, old, old_byte_size \div chunk_sz)
           linked          == LinkCells(copied, nb, pool_sz, new_pool_sz - 1,
                                        chunk_sz)
           first_new_chunk == Ptr(nb, old_byte_size)
           grown           == Obtain(heap, ArrBlk(nb))
           path            == Walk(mem, free_chunk, chunk_sz, Fuel)
           tail            == IF path = <<>> THEN free_chunk
                              ELSE Load(mem, path[Len(path)], chunk_sz)
           uninit          == Len(path) = 1
           off_next        == IF uninit THEN land
                              ELSE CellOf(path[Len(path)], chunk_sz)
           translated      == Translate(linked, path, nb, chunk_sz)
           outside         == \/ new_pool_sz > Len(blk.cells)
                              \/ \E j \in 1..Len(path) :
                                    /\ j < Len(path) \/ ~uninit
                                    /\ CellOf(path[j], chunk_sz) > Len(blk.cells)
                              \/ uninit /\ land = 0
           rec(r, calls, rel) ==
               Call("resize", new_pool_sz, 0, NULL, r, NULL, calls, rel)
       IN
       IF new_pool_sz < pool_sz THEN
            /\ land = 0
            /\ last' = rec(FALSE, 0, <<>>)
            /\ UNCHANGED <<phase, poolvars, heap, live, shadow, cap>>
       ELSE IF new_pool_sz = pool_sz THEN
            /\ land = 0
            /\ last' = rec(TRUE, 0, <<>>)
            /\ UNCHANGED <<phase, poolvars, heap, live, shadow, cap>>
       ELSE IF AllocFailed(ok) THEN
            /\ land = 0
            /\ last' = rec(FALSE, 1, <<>>)
            /\ UNCHANGED <<phase, poolvars, heap, live, shadow, cap>>
       ELSE IF free_chunk = NULL THEN
            /\ land = 0
            /\ IF outside THEN
                    /\ phase' = "ub"
                    /\ heap' = grown
                    /\ UNCHANGED <<poolvars, live, shadow, cap>>
               ELSE /\ free_chunk' = first_new_chunk
                    /\ mem' = (nb :> [blk EXCEPT !.cells = linked])
                    /\ chunk_arr' = nb
                    /\ nextblk' = nextblk + 1
                    /\ heap' = FreeOld(grown, chunk_arr)
                    /\ live' = {Rebase(p, nb) : p \in live}
                    /\ shadow' = [q \in live' |->
                                    shadow[CHOOSE p \in live : Rebase(p, nb) = q]]
                    /\ cap' = new_pool_sz
                    /\ UNCHANGED <<phase, pool_sz, chunk_sz, array_starts>>
            /\ last' = rec(TRUE, 1, <<"arr">>)
       ELSE IF Len(path) = Fuel THEN
            \* the old free list has a cycle: the loop never ends
            /\ land = 0
            /\ phase' = "hung"
            /\ last' = rec(FALSE, 1, <<>>)
            /\ heap' = grown
            /\ UNCHANGED <<poolvars, live, shadow, cap>>
       ELSE IF tail # NULL THEN
            \* the loop reads through a pointer that is not in the pool
            /\ land = 0
            /\ phase' = "ub"
            /\ last' = rec(FALSE, 1, <<>>)
            /\ heap' = grown
            /\ UNCHANGED <<poolvars, live, shadow, cap>>
       ELSE
            /\ IF uninit THEN land \in (-Len(blk.cells))..Len(blk.cells)
                         ELSE land = 0
            /\ uninit /\ land < 0 => chunk_sz > PtrSize
            /\ IF outside THEN
                    /\ phase' = "ub"
                    /\ heap' = grown
                    /\ UNCHANGED <<poolvars, live, shadow, cap>>
               ELSE /\ free_chunk' = Rebase(free_chunk, nb)
                    /\ mem' = (nb :> [blk EXCEPT !.cells =
                                  StoreLast(translated, off_next,
                                            first_new_chunk)])
                    /\ chunk_arr' = nb
                    /\ nextblk' = nextblk + 1
                    /\ heap' = FreeOld(grown, chunk_arr)
                    /\ live' = {Rebase(p, nb) : p \in live}
                    /\ shadow' = [q \in live' |->
                                    shadow[CHOOSE p \in live : Rebase(p, nb) = q]]
                    /\ cap' = new_pool_sz
                    /\ UNCHANGED <<phase, pool_sz, chunk_sz, array_starts>>
            /\ last' = rec(TRUE, 1, <<"arr">>)
    /\ ep' = IF phase' = "open" /\ chunk_arr' # chunk_arr
             THEN EpStart("resize", new_pool_sz)
             ELSE NoEp
    /\ UNCHANGED <<tvars, variant, obs>>

-----------------------------------------------------------------------------
(* pool_close(pool)                                                         *)

CloseIgnoredNever(pool) == FALSE

\* pool == NULL
CloseIgnored(pool) == pool = NullPool

pool_close(pool) ==
    /\ Callable(pool)
    /\ variant = "resize"
    /\ IF CloseIgnored(pool) THEN
            /\ last' = Call("close_null", 0, 0, NULL, TRUE, NULL, 0, <<>>)
            /\ UNCHANGED <<phase, mem, heap, live, shadow>>
       ELSE IF pool = NullPool THEN
            \* pool->chunk_arr with pool NULL
            /\ phase' = "ub"
            /\ last' = Call("close_null", 0, 0, NULL, TRUE, NULL, 0, <<>>)
            /\ UNCHANGED <<mem, heap, live, shadow>>
       ELSE
            /\ phase' = "closed"
            /\ mem' = [b \in DOMAIN mem \ {chunk_arr} |-> mem[b]]
            /\ heap' = Release(Release(heap, ArrBlk(chunk_arr)), PoolBlk)
            /\ live' = {}
            /\ shadow' = << >>
            /\ last' = Call("close", 0, 0, NULL, TRUE, NULL, 0, <<"arr", "pool">>)
    /\ ep' = NoEp
    /\ UNCHANGED <<tvars, variant, obs, free_chunk, chunk_arr, pool_sz, chunk_sz,
                   array_starts, nextblk, cap>>

-----------------------------------------------------------------------------
(* pool_expand(pool, extra_sz), the growth of the other build.  okArr and   *)
(* okRec tell whether the backing allocator supplies the new array and the  *)
(* backing-block record.                                                    *)

ExpandInvalidNoPool(pool, extra_sz) == extra_sz = 0

ExpandInvalidNoZero(pool, extra_sz) == pool = NullPool

\* Nothing to expand, or nothing to add.
ExpandInvalid(pool, extra_sz) == pool = NullPool \/ extra_sz = 0

\* The new array could not be obtained.
ExpandFailed(okArr) == ~okArr

ExpandHeadKeep(nb, head) == IF head = NULL THEN Ptr(nb, 0) ELSE head

\* The head after an expansion: the first chunk of the new array.
ExpandHead(nb, head) == Ptr(nb, 0)

pool_expand(pool, extra_sz, okArr, okRec) ==
    /\ Callable(pool)
    /\ variant = "expand"
    /\ pool = ThePool => nextblk <= MaxGrow + 1 /\ cap + extra_sz <= MaxCap
    /\ LET nb  == nextblk
           sz  == IF pool = ThePool THEN chunk_sz ELSE PtrSize
           blk == FreshBlock(ByteSize(extra_sz, sz), sz)
           linked == LinkCells(blk.cells, nb, 0, extra_sz - 1, sz)
           grown == Obtain(heap, ArrBlk(nb))
           rec(r, calls, rel) ==
               Call(IF pool = NullPool THEN "expand_null" ELSE "expand",
                    extra_sz, 0, NULL, r, NULL, calls, rel)
       IN
       IF ExpandInvalid(pool, extra_sz) THEN
            /\ last' = rec(FALSE, 0, <<>>)
            /\ UNCHANGED <<phase, poolvars, heap, cap>>
       ELSE IF pool = NullPool \/ extra_sz \notin 1..Len(blk.cells) THEN
            \* the fields of a NULL pool, or chunks outside the new array
            /\ phase' = "ub"
            /\ last' = rec(FALSE, 0, <<>>)
            /\ UNCHANGED <<poolvars, heap, cap>>
       ELSE IF ExpandFailed(okArr) THEN
            /\ last' = rec(FALSE, 1, <<>>)
            /\ UNCHANGED <<phase, poolvars, heap, cap>>
       ELSE IF ~okRec THEN
            /\ last' = rec(FALSE, 2, <<"arr">>)
            /\ heap' = Release(grown, ArrBlk(nb))
            /\ UNCHANGED <<phase, poolvars, cap>>
       ELSE
            /\ mem' = mem @@ (nb :> [blk EXCEPT !.cells =
                          [linked EXCEPT ![extra_sz].w = free_chunk]])
            /\ free_chunk' = ExpandHead(nb, free_chunk)
            /\ array_starts' = <<nb>> \o array_starts
            /\ nextblk' = nextblk + 1
            /\ heap' = Obtain(grown, RecBlk(nb))
            /\ cap' = cap + extra_sz
            /\ last' = rec(TRUE, 2, <<>>)
            /\ UNCHANGED <<phase, chunk_arr, pool_sz, chunk_sz>>
    /\ ep' = IF last'.ok THEN EpStart("expand", extra_sz) ELSE NoEp
    /\ UNCHANGED <<tvars, variant, obs, live, shadow>>

-----------------------------------------------------------------------------
(* pool_destroy(pool) of the expand build: every tracked backing block, its *)
(* record and the Pool structure are released.                              *)

\* The ledger after the blocks of `seq' are released, first to last.
RECURSIVE ReleaseAll(_, _)
ReleaseAll(h, seq) ==
    IF seq = <<>> THEN h ELSE ReleaseAll(Release(h, Head(seq)), Tail(seq))

\* What pool_destroy releases, in that order: the tracked arrays, their
\* records, the Pool structure.
DestroyOrder(starts) ==
    [i \in 1..Len(starts) |-> ArrBlk(starts[i])]
      \o [i \in 1..Len(starts) |-> RecBlk(starts[i])]
      \o <<PoolBlk>>

Kinds(seq) == [i \in 1..Len(seq) |-> seq[i].kind]

\* pool_destroy allows NULL as its argument.
DestroyIgnored(pool) == pool = NullPool

pool_destroy(pool) ==
    /\ Callable(pool)
    /\ variant = "expand"
    /\ IF DestroyIgnored(pool) THEN
            /\ last' = Call("destroy_null", 0, 0, NULL, TRUE, NULL, 0, <<>>)
            /\ UNCHANGED <<phase, mem, array_starts, heap, live, shadow>>
       ELSE IF pool = NullPool THEN
            /\ phase' = "ub"
            /\ last' = Call("destroy_null", 0, 0, NULL, TRUE, NULL, 0, <<>>)
            /\ UNCHANGED <<mem, array_starts, heap, live, shadow>>
       ELSE
            /\ phase' = "closed"
            /\ mem' = [b \in DOMAIN mem \ Range(array_starts) |-> mem[b]]
            /\ heap' = ReleaseAll(heap, DestroyOrder(array_starts))
            /\ array_starts' = <<>>
            /\ live' = {}
            /\ shadow' = << >>
            /\ last' = Call("destroy", 0, 0, NULL, TRUE, NULL, 0,
                            Kinds(DestroyOrder(array_starts)))
    /\ ep' = NoEp
    /\ UNCHANGED <<tvars, variant, obs, free_chunk, chunk_arr, pool_sz, chunk_sz,
                   nextblk, cap>>

-----------------------------------------------------------------------------

Next ==
    \/ \E n \in 0..MaxPoolSz, sz \in ChunkSizes, okPool \in BOOLEAN,
          okArr \in BOOLEAN, okRec \in BOOLEAN, okMutex \in BOOLEAN :
          pool_new(n, sz, okPool, okArr, okRec, okMutex)
    \/ \E pool \in Pools : pool_alloc(pool)
    \/ \E pool \in Pools, ptr \in live \cup {NULL} : pool_free(pool, ptr)
    \/ \E n \in 0..MaxCap, ok \in BOOLEAN, land \in (-MaxCap)..MaxCap :
          pool_resize(n, ok, land)
    \/ \E pool \in Pools : pool_close(pool)
    \/ \E pool \in Pools, extra \in 0..MaxCap, okArr \in BOOLEAN,
          okRec \in BOOLEAN : pool_expand(pool, extra, okArr, okRec)
    \/ \E pool \in Pools : pool_destroy(pool)

\* The caller also writes to the chunks it holds.
NextData ==
    \/ Next
    \/ \E ptr \in live, d \in 1..MaxData : user_write(ptr, d)

Spec == Init /\ [][Next]_vars

SpecData == InitData /\ [][NextData]_vars

\* A caller that resizes its pool again and again, the backing allocator
\* never failing.
NextLong ==
    \/ \E n \in 1..MaxPoolSz : pool_new(n, PtrSize, TRUE, TRUE, TRUE, TRUE)
    \/ pool_alloc(ThePool)
    \/ \E ptr \in live : pool_free(ThePool, ptr)
    \/ \E n \in 1..MaxCap, land \in (-MaxCap)..MaxCap :
          pool_resize(n, TRUE, land)

InitLong == InitCommon /\ variant = "resize" /\ obs = "long"

SpecLong == InitLong /\ [][NextLong]_vars

\* A caller that asks for pools of up to MaxNewSz chunks.
NextNew ==
    \E n \in 0..MaxNewSz, sz \in ChunkSizes, okPool \in BOOLEAN,
       okArr \in BOOLEAN :
       pool_new(n, sz, okPool, okArr, TRUE, TRUE)

SpecNew == Init /\ [][NextNew]_vars

\* A caller that may free a chunk a second time, right after freeing it.
NextMisuse ==
    \/ \E n \in 1..MaxPoolSz, sz \in ChunkSizes :
          pool_new(n, sz, TRUE, TRUE, TRUE, TRUE)
    \/ pool_alloc(ThePool)
    \/ \E ptr \in live : pool_free(ThePool, ptr)
    \/ \E ptr \in Freed \ live : pool_free(ThePool, ptr)

InitMisuse == InitCommon /\ variant = "resize" /\ obs = "misuse"

SpecMisuse == InitMisuse /\ [][NextMisuse]_vars

-----------------------------------------------------------------------------
(* The thread-safe build (LIBPOOL_THREAD_SAFE): threads call pool_alloc,    *)
(* pool_free and pool_expand on one shared pool.  Every call takes the      *)
(* pool's mutex, runs its body one memory access at a time and gives the    *)
(* mutex back.  okLock tells whether pool_ext_mutex_lock succeeds.          *)

\* Chunks one pool_expand call of a thread adds.
ExpandBy == 1

Running == phase = "open" /\ obs = "threads"

LockFailedNever(okLock) == FALSE

\* pool_ext_mutex_lock returned false
LockFailed(okLock) == ~okLock

LockFreeAlways(m) == TRUE

\* The mutex can be taken.
LockFree(m) == m = 0

AcquireNone(t) == 0

\* The mutex once thread t took it.
Acquire(t) == t

UnlockKeep(m, t) == m

\* The mutex once thread t gave it back.
Unlock(m, t) == 0

\* The first step of the body of the call a thread waits to enter.
Body(pc) ==
    CASE pc = "alloc_lock" -> "alloc_read"
      [] pc = "free_lock" -> "free_link"
      [] pc = "expand_lock" -> "expand_alloc"

\* A thread calls pool_alloc(pool).
call_alloc(t) ==
    /\ Running
    /\ thr[t].pc = "idle"
    /\ thr[t].att < MaxAllocs
    /\ thr' = [thr EXCEPT ![t].pc = "alloc_lock", ![t].reg = NULL]
    /\ UNCHANGED <<mutex, phase, poolvars, variant, obs, heap, live, shadow,
                   cap, last, ep>>

\* A thread calls pool_free(pool, ptr) with a chunk it holds.
call_free(t, ptr) ==
    /\ Running
    /\ thr[t].pc = "idle"
    /\ ptr \in thr[t].held
    /\ thr' = [thr EXCEPT ![t].pc = "free_lock", ![t].reg = ptr]
    /\ UNCHANGED <<mutex, phase, poolvars, variant, obs, heap, live, shadow,
                   cap, last, ep>>

\* The thread that also expands the pool.
Expander == 1

\* The expanding thread calls pool_expand(pool, ExpandBy).
call_expand(t) ==
    /\ Running
    /\ t = Expander
    /\ thr[t].pc = "idle"
    /\ thr[t].exp < MaxExpand
    /\ thr' = [thr EXCEPT ![t].pc = "expand_lock", ![t].reg = NULL,
                          ![t].exp = @ + 1]
    /\ UNCHANGED <<mutex, phase, poolvars, variant, obs, heap, live, shadow,
                   cap, last, ep>>

\* pool_ext_mutex_lock(pool->mutex): the call gives up when it fails, else
\* the thread goes on once it has the mutex.
mutex_lock(t, okLock) ==
    /\ Running
    /\ thr[t].pc \in {"alloc_lock", "free_lock", "expand_lock"}
    /\ IF LockFailed(okLock) THEN
            /\ thr' = [thr EXCEPT ![t].pc = "idle", ![t].reg = NULL,
                                  ![t].res = "lockfail"]
            /\ UNCHANGED mutex
       ELSE /\ LockFree(mutex)
            /\ mutex' = Acquire(t)
            /\ thr' = [thr EXCEPT ![t].pc = Body(@),
                          ![t].att = IF thr[t].pc = "alloc_lock"
                                       THEN @ + 1 ELSE @]
    /\ UNCHANGED <<phase, poolvars, variant, obs, heap, live, shadow, cap,
                   last, ep>>

\* pool_alloc: the test of the head, result = pool->free_chunk.
alloc_read(t) ==
    /\ Running
    /\ thr[t].pc = "alloc_read"
    /\ thr' = IF HeadEmpty(free_chunk)
                THEN [thr EXCEPT ![t].pc = "unlock", ![t].reg = NULL,
                                 ![t].res = "empty"]
                ELSE [thr EXCEPT ![t].pc = "alloc_next",
                                 ![t].reg = free_chunk]
    /\ UNCHANGED <<mutex, phase, poolvars, variant, obs, heap, live, shadow,
                   cap, last, ep>>

\* pool_alloc: pool->free_chunk = *(void** )result.
alloc_next(t) ==
    /\ Running
    /\ thr[t].pc = "alloc_next"
    /\ IF ~InBlock(mem, thr[t].reg, chunk_sz) THEN
            /\ phase' = "ub"
            /\ UNCHANGED <<free_chunk, thr>>
       ELSE LET next == AllocNext(mem, thr[t].reg, chunk_sz)
            IN /\ free_chunk' = (IF next.k = "ptr" THEN next ELSE Ptr(-1, 0))
               /\ thr' = [thr EXCEPT ![t].pc = "unlock", ![t].res = "chunk"]
               /\ UNCHANGED phase
    /\ UNCHANGED <<mutex, chunk_arr, pool_sz, chunk_sz, array_starts, mem,
                   nextblk, variant, obs, heap, live, shadow, cap, last, ep>>

\* pool_free: *(void** )ptr = pool->free_chunk.
free_link(t) ==
    /\ Running
    /\ thr[t].pc = "free_link"
    /\ mem' = FreeLink(mem, thr[t].reg, free_chunk, chunk_sz)
    /\ thr' = [thr EXCEPT ![t].pc = "free_head"]
    /\ UNCHANGED <<mutex, phase, free_chunk, chunk_arr, pool_sz, chunk_sz,
                   array_starts, nextblk, variant, obs, heap, live, shadow,
                   cap, last, ep>>

\* pool_free: pool->free_chunk = ptr.
free_head(t) ==
    /\ Running
    /\ thr[t].pc = "free_head"
    /\ free_chunk' = FreeHead(thr[t].reg, free_chunk)
    /\ thr' = [thr EXCEPT ![t].pc = "unlock", ![t].res = "freed"]
    /\ UNCHANGED <<mutex, phase, chunk_arr, pool_sz, chunk_sz, array_starts,
                   mem, nextblk, variant, obs, heap, live, shadow, cap, last,
                   ep>>

\* pool_expand: the new array and its record are obtained and the free list
\* is threaded through the array, which no other thread can reach yet.
expand_alloc(t, okArr) ==
    /\ Running
    /\ thr[t].pc = "expand_alloc"
    /\ LET nb  == nextblk
           blk == FreshBlock(ByteSize(ExpandBy, chunk_sz), chunk_sz)
       IN IF ExpandFailed(okArr) THEN
               /\ thr' = [thr EXCEPT ![t].pc = "unlock", ![t].res = "false"]
               /\ UNCHANGED <<mem, nextblk, heap>>
          ELSE /\ mem' = mem @@ (nb :> [blk EXCEPT !.cells =
                           LinkCells(blk.cells, nb, 0, ExpandBy - 1, chunk_sz)])
               /\ nextblk' = nextblk + 1
               /\ heap' = Obtain(Obtain(heap, ArrBlk(nb)), RecBlk(nb))
               /\ thr' = [thr EXCEPT ![t].pc = "expand_link",
                                     ![t].reg = Ptr(nb, 0)]
    /\ UNCHANGED <<mutex, phase, free_chunk, chunk_arr, pool_sz, chunk_sz,
                   array_starts, variant, obs, live, shadow, cap, last, ep>>

ExpandLinkNone(m, first, head, sz) == m

\* pool_expand: the last chunk of the new array points to the old head.
ExpandLink(m, first, head, sz) ==
    [m EXCEPT ![first.blk].cells[ExpandBy].w = head]

expand_link(t) ==
    /\ Running
    /\ thr[t].pc = "expand_link"
    /\ mem' = ExpandLink(mem, thr[t].reg, free_chunk, chunk_sz)
    /\ thr' = [thr EXCEPT ![t].pc = "expand_head"]
    /\ UNCHANGED <<mutex, phase, free_chunk, chunk_arr, pool_sz, chunk_sz,
                   array_starts, nextblk, variant, obs, heap, live, shadow,
                   cap, last, ep>>

\* pool_expand: the head becomes the first chunk of the new array and the
\* array is added to the pool's list of backing blocks.
expand_head(t) ==
    /\ Running
    /\ thr[t].pc = "expand_head"
    /\ free_chunk' = thr[t].reg
    /\ array_starts' = <<thr[t].reg.blk>> \o array_starts
    /\ cap' = cap + ExpandBy
    /\ thr' = [thr EXCEPT ![t].pc = "unlock", ![t].res = "true"]
    /\ UNCHANGED <<mutex, phase, chunk_arr, pool_sz, chunk_sz, mem, nextblk,
                   variant, obs, heap, live, shadow, last, ep>>

\* pool_ext_mutex_unlock(pool->mutex) and the return to the caller, who
\* keeps the chunk pool_alloc returned and no longer has the one it freed.
\* res is "clash" when pool_alloc returned a chunk that some thread holds.
mutex_unlock(t) ==
    /\ Running
    /\ thr[t].pc = "unlock"
    /\ mutex' = Unlock(mutex, t)
    /\ LET r == thr[t].reg
       IN CASE thr[t].res = "chunk" ->
                 /\ thr' = [thr EXCEPT ![t].pc = "idle",
                               ![t].held = @ \cup {r},
                               ![t].succ = @ + 1,
                               ![t].res = IF r \in live THEN "clash"
                                          ELSE "chunk"]
                 /\ live' = live \cup {r}
            [] thr[t].res = "freed" ->
                 /\ thr' = [thr EXCEPT ![t].pc = "idle", ![t].held = @ \ {r}]
                 /\ live' = live \ {r}
            [] OTHER ->
                 /\ thr' = [thr EXCEPT ![t].pc = "idle"]
                 /\ UNCHANGED live
    /\ UNCHANGED <<phase, poolvars, variant, obs, heap, shadow, cap, last, ep>>

\* The main thread creates the pool before the threads start.
NextThreads ==
    \/ \E n \in 1..MaxSharedSz, okMutex \in BOOLEAN :
          pool_new(n, PtrSize, TRUE, TRUE, TRUE, okMutex)
    \/ \E t \in Threads : call_alloc(t)
    \/ \E t \in Threads, ptr \in live : call_free(t, ptr)
    \/ \E t \in Threads : call_expand(t)
    \/ \E t \in Threads, okLock \in BOOLEAN : mutex_lock(t, okLock)
    \/ \E t \in Threads : alloc_read(t)
    \/ \E t \in Threads : alloc_next(t)
    \/ \E t \in Threads : free_link(t)
    \/ \E t \in Threads : free_head(t)
    \/ \E t \in Threads, okArr \in BOOLEAN : expand_alloc(t, okArr)
    \/ \E t \in Threads : expand_link(t)
    \/ \E t \in Threads : expand_head(t)
    \/ \E t \in Threads : mutex_unlock(t)

InitThreads == InitCommon /\ variant = "expand" /\ obs = "threads"

SpecThreads == InitThreads /\ [][NextThreads]_vars

\* What a thread does once it has made a call: take the mutex, run the body,
\* give the mutex back.
ThreadStep(t) ==
    \/ mutex_lock(t, TRUE)
    \/ alloc_read(t)
    \/ alloc_next(t)
    \/ free_link(t)
    \/ free_head(t)
    \/ \E okArr \in BOOLEAN : expand_alloc(t, okArr)
    \/ expand_link(t)
    \/ expand_head(t)
    \/ mutex_unlock(t)

\* The scheduler lets every thread that can go on do so.
SpecThreadsFair ==
    SpecThreads /\ \A t \in Threads : WF_vars(ThreadStep(t))


-----------------------------------------------------------------------------
(* Properties                                                              *)

\* The caller's latest call was a pool_alloc that is part of the series `ep'
\* that began with `start'.
AllocAfter(start) ==
    /\ ep.ph = "A"
    /\ ep.start = start
    /\ last.op = "alloc"

\* C1: a freshly created pool of pool_sz chunks gives exactly pool_sz
\* successful pool_alloc calls: the c-th pool_alloc since pool_new returns a
\* chunk when c <= pool_sz and NULL when c > pool_sz.
Thm_C1 ==
    AllocAfter("new") =>
        /\ phase = "open"
        /\ (last.ret # NULL) <=> (ep.c <= ep.arg)

Wit_C1 ==
    /\ AllocAfter("new")
    /\ ep.arg = MaxPoolSz
    /\ ep.n = MaxPoolSz
    /\ ep.c = MaxPoolSz + 1
    /\ last.ret = NULL

\* C2: pool_alloc never returns the address of a chunk the caller holds
\* (allocated and not yet freed), in any state reached by pool_alloc,
\* pool_free of held chunks and growth.
Cex_C2 ==
    [][(last'.op = "alloc" /\ last'.ret # NULL) => last'.ret \notin live]_vars

\* C3: when n chunks are allocated and then all n freed, in any order, the
\* next n pool_alloc calls succeed, and when n is the capacity of the pool
\* the call after them returns NULL.
Cex_C3 ==
    (ep.ph = "B" /\ last.op = "alloc") =>
        /\ phase = "open"
        /\ ep.c <= ep.n => last.ret # NULL
        /\ (ep.n = cap /\ ep.c = ep.n + 1) => last.ret = NULL

\* C4: pool_free(pool, p) followed immediately by pool_alloc(pool) returns p.
Thm_C4 ==
    [][(last.op = "free" /\ last'.op = "alloc" /\ phase = "open") =>
          (phase' = "open" /\ last'.ret = last.p)]_vars

\* The pool was exhausted, one chunk was freed and allocated again.
Wit_C4 ==
    /\ ep.ph = "B"
    /\ ep.c = 1
    /\ last.op = "alloc"
    /\ last.ret \in live
    /\ free_chunk = NULL
    /\ Cardinality(live) = MaxPoolSz

\* C5: pool_alloc on a pool with an empty free list returns NULL and changes
\* nothing in the pool.
Thm_C5 ==
    [][(phase = "open" /\ free_chunk = NULL /\ last'.op = "alloc") =>
          (last'.ret = NULL /\ ~last'.ok /\ UNCHANGED <<phase, poolvars>>)]_vars

\* Two pool_alloc calls in a row returned NULL.
Wit_C5 ==
    /\ AllocAfter("new")
    /\ ep.c = ep.n + 2
    /\ last.ret = NULL
    /\ free_chunk = NULL

\* C6: after a successful pool_expand(pool, k) exactly k more pool_alloc
\* calls succeed than before it: with nfree chunks free before the expand,
\* the c-th pool_alloc after it returns a chunk exactly when c <= nfree + k.
Thm_C6 ==
    AllocAfter("expand") =>
        /\ phase = "open"
        /\ (last.ret # NULL) <=> (ep.c <= ep.nfree + ep.arg)

\* The second expand of an exhausted pool, used up.
Wit_C6 ==
    /\ AllocAfter("expand")
    /\ Len(array_starts) = 3
    /\ ep.nfree = 0
    /\ ep.c = ep.arg + 1
    /\ last.ret = NULL

\* C7: in the expand build every chunk the caller holds stays where it is,
\* with the contents the caller left in it, through pool_expand and the
\* pool_alloc / pool_free calls that follow.
Thm_C7 ==
    (variant = "expand" /\ phase = "open") =>
        \A p \in live :
            /\ InBlock(mem, p, chunk_sz)
            /\ Contents(mem, p, chunk_sz) = shadow[p]

\* A chunk of the first array, written before two expands, with a pool_free
\* of another chunk after them.
Wit_C7 ==
    /\ variant = "expand"
    /\ phase = "open"
    /\ Len(array_starts) = 3
    /\ last.op = "free"
    /\ \E p \in live :
          /\ p.blk = chunk_arr
          /\ shadow[p].w.k = "data"
          /\ Contents(mem, p, chunk_sz) = shadow[p]

\* C8: after a successful pool_resize(pool, n) that moved the pool, with
\* nlive chunks held by the caller, the pool has n chunks: exactly n - nlive
\* further pool_alloc calls succeed before one returns NULL.
Cex_C8 ==
    AllocAfter("resize") =>
        /\ phase = "open"
        /\ (last.ret # NULL) <=> (ep.c <= ep.arg - ep.nlive)

\* C9: pool_resize(pool, n) with n below the capacity the pool was created
\* with or last resized to returns false and leaves the pool unchanged.
Cex_C9 ==
    [][(phase = "open" /\ last'.op = "resize" /\ last'.n < cap) =>
          (~last'.ok /\ UNCHANGED <<phase, poolvars>>)]_vars

\* C10: pool_resize(pool, n) with n equal to the capacity of the pool returns
\* true, does not call the backing allocator and leaves the pool unchanged.
Cex_C10 ==
    [][(phase = "open" /\ last'.op = "resize" /\ last'.n = cap) =>
          (last'.ok /\ last'.calls = 0 /\ last'.rel = 0
           /\ UNCHANGED <<phase, poolvars>>)]_vars

\* The state is left as it was, but for the caller's notes of the call.
Untouched == UNCHANGED <<phase, poolvars, heap, live, shadow, cap>>

\* C11: a growth call whose new block the backing allocator refuses returns
\* false after that one request, releases nothing and leaves the head, the
\* chunk memory, the tracked blocks, the capacity and the caller's chunks as
\* they were: every pool_resize step to a larger size and every pool_expand
\* step by k > 0 taken with a failing allocator.
Thm_C11 ==
    [][/\ \A n \in 0..MaxCap :
            (phase = "open" /\ n > pool_sz /\ pool_resize(n, FALSE, 0)) =>
                (~last'.ok /\ last'.calls = 1 /\ last'.rel = 0 /\ Untouched)
       /\ \A k \in 1..MaxCap, okRec \in BOOLEAN :
            pool_expand(ThePool, k, FALSE, okRec) =>
                (~last'.ok /\ last'.calls = 1 /\ last'.rel = 0 /\ Untouched)
      ]_vars

\* pool_resize failed for want of memory on a pool with held and free chunks.
Wit_C11 ==
    /\ phase = "open"
    /\ last.op = "resize"
    /\ ~last.ok
    /\ last.calls = 1
    /\ last.n > cap
    /\ live # {}
    /\ free_chunk # NULL

\* C12: pool_expand(pool, 0) returns false without asking the backing
\* allocator for anything and leaves the pool, and so the chunks that can
\* be allocated, unchanged.
Thm_C12 ==
    [][(last'.op = "expand" /\ last'.n = 0) =>
          (~last'.ok /\ last'.calls = 0 /\ last'.rel = 0 /\ Untouched)]_vars

Wit_C12 ==
    /\ phase = "open"
    /\ last.op = "expand"
    /\ last.n = 0
    /\ ~last.ok
    /\ live # {}
    /\ Len(FreeList) > 0

\* C13: pool_expand(NULL, n) returns false for every n without calling the
\* backing allocator.
Thm_C13 ==
    [][last'.op = "expand_null" =>
          (~last'.ok /\ last'.calls = 0 /\ last'.rel = 0 /\ Untouched)]_vars

Wit_C13 ==
    /\ last.op = "expand_null"
    /\ last.n = MaxCap
    /\ ~last.ok
    /\ phase = "open"

\* C14: pool_new(0, chunk_sz) returns NULL for every chunk_sz without calling
\* the backing allocator: nothing is obtained and nothing is outstanding.
Thm_C14 ==
    [][(last'.op = "new" /\ last'.n = 0) =>
          (~last'.ok /\ last'.calls = 0 /\ last'.rel = 0 /\ Untouched)]_vars

Wit_C14 ==
    /\ last.op = "new"
    /\ last.n = 0
    /\ last.sz = MaxChunkWords * PtrSize
    /\ ~last.ok
    /\ phase = "none"
    /\ mem = << >>

\* C15: pool_new with a chunk size below the pointer size returns NULL and
\* allocates nothing (the source rounds no chunk size).
Thm_C15 ==
    [][(last'.op = "new" /\ last'.sz < PtrSize) =>
          (~last'.ok /\ last'.calls = 0 /\ last'.rel = 0 /\ Untouched)]_vars

Wit_C15 ==
    /\ variant = "resize"
    /\ last.op = "new"
    /\ last.sz < PtrSize
    /\ last.sz > 0
    /\ last.n = MaxPoolSz
    /\ ~last.ok
    /\ phase = "none"

\* C16: pool_new rejects no positive chunk size, a chunk size below the
\* pointer size included: the pool it creates has the requested size rounded
\* up to the next multiple of the pointer size, and every chunk pool_alloc
\* hands out lies at a multiple of the pointer size from the start of its
\* (pointer-aligned) backing block.
Cex_C16 ==
    /\ (last.op = "new" /\ last.n > 0 /\ last.sz > 0) => last.calls > 0
    /\ (last.op = "new" /\ last.ok) => chunk_sz = AlignUp(last.sz)
    /\ phase = "open" =>
          \A p \in live : InBlock(mem, p, chunk_sz) /\ p.off % PtrSize = 0

\* C17: a pool_new that fails leaves nothing outstanding: when the Pool
\* structure cannot be allocated nothing else is requested, and in every
\* other failure each block obtained so far has been released once; no pool
\* exists afterwards.
Thm_C17 ==
    (last.op = "new" /\ ~last.ok) =>
        /\ phase = "none"
        /\ mem = << >>
        /\ AllReleasedOnce(heap)
        /\ last.calls = 1 => last.rel = 0
        /\ last.calls > 1 => last.rel = last.calls - 1
                             \/ (last.rel = last.calls /\ variant = "expand")

\* The chunk array could not be allocated and the Pool structure was released.
Wit_C17 ==
    /\ variant = "resize"
    /\ last.op = "new"
    /\ ~last.ok
    /\ last.calls = 2
    /\ last.order = <<"pool">>
    /\ PoolBlk \in DOMAIN heap
    /\ heap[PoolBlk] = 1

\* C18: no block is released twice while the pool is in use, and once the
\* pool is closed or destroyed every block ever obtained for it has been
\* released exactly once, the Pool structure last.
Thm_C18 ==
    /\ phase \in {"none", "open", "closed"} =>
          \A x \in DOMAIN heap : heap[x] \in {0, 1}
    /\ phase = "closed" =>
          /\ AllReleasedOnce(heap)
          /\ mem = << >>
          /\ last.op \in {"close", "destroy"} =>
                /\ last.order[last.rel] = "pool"
                /\ \A i \in 1..(last.rel - 1) : last.order[i] # "pool"

\* A pool closed after it was moved MaxGrow times.
Wit_C18 ==
    /\ phase = "closed"
    /\ last.op = "close"
    /\ nextblk = MaxGrow + 2
    /\ Cardinality(DOMAIN heap) = MaxGrow + 2

\* C19: pool_free(pool, NULL) and pool_free(NULL, ptr) change nothing: the
\* head, the chunk memory (that of ptr included) and the caller's chunks are
\* as before.
Thm_C19 ==
    [][last'.op = "free_null" => Untouched]_vars

\* pool_free(NULL, ptr) with a chunk the caller holds.
Wit_C19 ==
    /\ last.op = "free_null"
    /\ last.p \in live
    /\ phase = "open"
    /\ free_chunk # NULL

\* C20: pool_alloc(NULL) returns NULL (and touches nothing).
Thm_C20 ==
    [][last'.op = "alloc_null" => (last'.ret = NULL /\ Untouched)]_vars

\* pool_alloc(NULL) while a pool with free chunks exists.
Wit_C20 ==
    /\ last.op = "alloc_null"
    /\ last.ret = NULL
    /\ phase = "open"
    /\ free_chunk # NULL

\* C21: pool_close(NULL) and pool_destroy(NULL) do nothing: no block is
\* given to the backing allocator's release function and nothing changes.
Thm_C21 ==
    [][last'.op \in {"close_null", "destroy_null"} =>
          (last'.rel = 0 /\ last'.calls = 0 /\ Untouched)]_vars

\* pool_close(NULL) while an open pool holds blocks that are not released.
Wit_C21 ==
    /\ last.op = "close_null"
    /\ last.rel = 0
    /\ phase = "open"
    /\ PoolBlk \in DOMAIN heap
    /\ heap[PoolBlk] = 0
    /\ heap[ArrBlk(chunk_arr)] = 0

\* C29: the example's call, pool_resize with an argument below the size the
\* pool was created with, on a pool that was never resized, succeeds and
\* adds that many chunks to the pool.
Cex_C29 ==
    [][(phase = "open" /\ nextblk = 2 /\ last'.op = "resize"
            /\ last'.n > 0 /\ last'.n < pool_sz) =>
          (last'.ok /\ cap' = cap + last'.n
             /\ Len(FreeList') = Len(FreeList) + last'.n)]_vars

\* C30: in every state of an open pool the walk from the head ends at NULL
\* without meeting a chunk twice, meets no chunk the caller holds, and the
\* head and every next-pointer are NULL or a chunk-aligned offset inside a
\* backing array the pool currently has.
Tracked(b) ==
    IF variant = "resize" THEN b = chunk_arr ELSE b \in Range(array_starts)

LinkOk(p) ==
    p = NULL \/ (InBlock(mem, p, chunk_sz) /\ Tracked(p.blk))

Cex_C30 ==
    phase = "open" =>
        LET fl == Walk(mem, free_chunk, chunk_sz, Fuel)
        IN /\ LinkOk(free_chunk)
           /\ \A i \in 1..Len(fl) : LinkOk(Load(mem, fl[i], chunk_sz))
           /\ Len(fl) < Fuel
           /\ Cardinality(Range(fl)) = Len(fl)
           /\ Range(fl) \cap live = {}

\* A thread is inside the body of a pool operation.
InBody(t) ==
    thr[t].pc \notin {"idle", "alloc_lock", "free_lock", "expand_lock"}

AllIdle == \A t \in Threads : thr[t].pc = "idle"

RECURSIVE SuccUpTo(_)
SuccUpTo(n) == IF n = 0 THEN 0 ELSE thr[n].succ + SuccUpTo(n - 1)

\* Successful pool_alloc calls of all threads.
TotalSucc == SuccUpTo(NumThreads)

\* Chunks the shared pool was created with and expanded by.
Capacity == pool_sz + ExpandBy * (Len(array_starts) - 1)

\* C22: with threads sharing the pool, pool_alloc never returns a chunk that
\* a thread holds, no chunk is held by two threads, every held chunk is a
\* chunk of the pool and no more chunks are held than the pool has.
Thm_C22 ==
    Running =>
        /\ \A t \in Threads : thr[t].res # "clash"
        /\ \A t, u \in Threads : t # u => thr[t].held \cap thr[u].held = {}
        /\ live = UNION {thr[t].held : t \in Threads}
        /\ \A p \in live : InBlock(mem, p, chunk_sz)
        /\ Cardinality(live) <= Capacity

\* Both threads hold chunks, the pool is exhausted and a call found it so.
Wit_C22 ==
    /\ Running
    /\ thr[1].held # {}
    /\ thr[2].held # {}
    /\ Cardinality(live) = Capacity
    /\ thr[2].res = "empty"
    /\ thr[1].att = MaxAllocs

\* C23: a thread is inside the body of an operation exactly while it holds
\* the mutex: at most one thread is inside a body, and a thread that waits
\* for the mutex or has returned (on any path) does not hold it.
Thm_C23 ==
    obs = "threads" =>
        /\ phase \in {"none", "open"}
        /\ mutex \in {0} \cup Threads
        /\ \A t \in Threads : InBody(t) <=> mutex = t
        /\ Cardinality({t \in Threads : InBody(t)}) <= 1

\* A pool_expand that failed is about to leave while another thread waits.
Wit_C23 ==
    /\ Running
    /\ thr[1].pc = "unlock"
    /\ thr[1].res = "false"
    /\ mutex = 1
    /\ thr[2].pc = "alloc_lock"

\* C24: whenever no thread is inside an operation the free list ends at NULL
\* without a repeated chunk, holds no chunk a thread holds and, with the
\* held chunks, makes up every chunk of the pool; once all threads are done
\* and have freed their chunks the free chunks are the initial capacity
\* plus what the successful pool_expand calls added.
Thm_C24 ==
    (Running /\ mutex = 0) =>
        LET fl == FreeList
        IN /\ LinkOk(free_chunk)
           /\ \A i \in 1..Len(fl) : LinkOk(Load(mem, fl[i], chunk_sz))
           /\ Len(fl) < Fuel
           /\ Cardinality(Range(fl)) = Len(fl)
           /\ Range(fl) \cap live = {}
           /\ Len(fl) + Cardinality(live) = Capacity
           /\ cap = Capacity
           /\ (AllIdle /\ live = {}) => Len(fl) = Capacity

\* The pool was expanded while the other thread used it; all is freed, the
\* last chunk freed being one of the first array.
Wit_C24 ==
    /\ Running
    /\ AllIdle
    /\ live = {}
    /\ Len(array_starts) = 2
    /\ thr[1].res = "true"
    /\ thr[2].succ = MaxAllocs
    /\ free_chunk.blk = array_starts[2]
    /\ Len(FreeList) = pool_sz + ExpandBy

\* C25: when the pool was created with at least NumThreads * MaxAllocs
\* chunks no pool_alloc finds it empty, and once every thread has made its
\* MaxAllocs calls the successful ones number NumThreads * MaxAllocs.
Thm_C25 ==
    (Running /\ pool_sz >= NumThreads * MaxAllocs) =>
        /\ \A t \in Threads : thr[t].res # "empty"
        /\ \A t \in Threads : thr[t].pc = "idle" => thr[t].succ = thr[t].att
        /\ (AllIdle /\ \A t \in Threads : thr[t].att = MaxAllocs) =>
              TotalSucc = NumThreads * MaxAllocs

\* Every thread allocated MaxAllocs chunks and none was freed yet.
Wit_C25 ==
    /\ Running
    /\ pool_sz = NumThreads * MaxAllocs
    /\ AllIdle
    /\ \A t \in Threads : thr[t].succ = MaxAllocs
    /\ Cardinality(live) = NumThreads * MaxAllocs

Thm_C27 ==
    [][\A t \in Threads :
          mutex_lock(t, FALSE) =>
              /\ thr'[t].pc = "idle"
              /\ thr'[t].res = "lockfail"
              /\ thr'[t].held = thr[t].held
              /\ UNCHANGED <<mutex, phase, poolvars, heap, live, cap>>]_vars

\* A pool_free gave up for want of the mutex while the other thread was
\* inside pool_expand; the chunk is still held.
Wit_C27 ==
    /\ Running
    /\ thr[2].res = "lockfail"
    /\ thr[2].pc = "idle"
    /\ thr[2].held # {}
    /\ mutex = 1
    /\ thr[1].pc = "expand_link"

\* C28: under a fair scheduler every call a thread has made returns.
Thm_C28 ==
    \A t \in Threads : (thr[t].pc # "idle") ~> (thr[t].pc = "idle")

\* A thread waits for the mutex that another thread holds.
Wit_C28 ==
    /\ Running
    /\ thr[2].pc = "free_lock"
    /\ mutex = 1
    /\ thr[1].pc = "alloc_next"

\* C31: a successful pool_resize that moved the pool leaves as free list the
\* old free list, in its order and at the same offsets of the new array,
\* followed by the added chunks in ascending order, and then NULL.
Cex_C31 ==
    [][(phase = "open" /\ phase' = "open" /\ last'.op = "resize" /\ last'.ok
            /\ chunk_arr' # chunk_arr) =>
          FreeList' =
              [i \in 1..Len(FreeList) |-> Rebase(FreeList[i], chunk_arr')]
                \o [i \in 1..(last'.n - cap) |->
                      Ptr(chunk_arr', (cap + i - 1) * chunk_sz)]]_vars

\* C32: a successful pool_expand(pool, k) leaves as free list the k chunks of
\* the new array in ascending order followed by the free list of before, so
\* the first k pool_alloc calls after it return the new array's chunks in
\* that order and the later ones chunks of the older arrays.
Thm_C32 ==
    [][/\ (phase = "open" /\ last'.op = "expand" /\ last'.ok) =>
             FreeList' =
                 [i \in 1..last'.n |->
                     Ptr(Head(array_starts'), (i - 1) * chunk_sz)]
                   \o FreeList
       /\ (AllocAfter("expand")' /\ last'.ret # NULL) =>
             IF ep'.c <= ep'.arg
               THEN last'.ret =
                        Ptr(Head(array_starts'), (ep'.c - 1) * chunk_sz)
               ELSE last'.ret.blk # Head(array_starts')]_vars

\* One chunk was free, the pool was expanded by two, and the third
\* pool_alloc since returned that chunk of the first array.
Wit_C32 ==
    /\ AllocAfter("expand")
    /\ ep.arg = 2
    /\ ep.nfree = 1
    /\ ep.c = 3
    /\ last.ret.blk = chunk_arr
    /\ Len(array_starts) = 2

\* C33: a pool_alloc that returns a chunk returns the old head, makes the
\* next-pointer stored in it the head and writes no chunk memory;
\* pool_free(pool, p) stores the old head in the first pointer-sized bytes
\* of chunk p, writes nothing else and makes p the head; the other chunks
\* the caller holds keep their contents through both.
Thm_C33 ==
    [][/\ (phase = "open" /\ phase' = "open" /\ last'.op = "alloc"
              /\ last'.ok) =>
             /\ mem' = mem
             /\ live' = live \cup {free_chunk}
             /\ Load(mem, free_chunk, chunk_sz).k = "ptr" =>
                   free_chunk' = Load(mem, free_chunk, chunk_sz)
       /\ (phase = "open" /\ phase' = "open" /\ last'.op = "free") =>
             \E p \in live :
                /\ live' = live \ {p}
                /\ free_chunk' = p
                /\ mem' = [mem EXCEPT
                             ![p.blk].cells[CellOf(p, chunk_sz)].w = free_chunk]
       /\ (phase = "open" /\ phase' = "open"
              /\ last'.op \in {"alloc", "free"}) =>
             \A q \in live \cap live' :
                InBlock(mem, q, chunk_sz) =>
                   Contents(mem', q, chunk_sz) = Contents(mem, q, chunk_sz)]_vars

\* A chunk wider than a pointer was written and freed: it is the head, its
\* first word is the old head and the rest still holds the caller's data,
\* while another chunk the caller holds has its data.
Wit_C33 ==
    /\ phase = "open"
    /\ obs = "data"
    /\ last.op = "free"
    /\ chunk_sz > PtrSize
    /\ InBlock(mem, free_chunk, chunk_sz)
    /\ Contents(mem, free_chunk, chunk_sz).w.k = "ptr"
    /\ Contents(mem, free_chunk, chunk_sz).w # NULL
    /\ Contents(mem, free_chunk, chunk_sz).rest.k = "data"
    /\ \E q \in live :
          /\ shadow[q].w.k = "data"
          /\ Contents(mem, q, chunk_sz) = shadow[q]

\* C34: in every state of an open pool the chunks on the free list and the
\* chunks the caller holds are disjoint and together number the capacity
\* the pool was created with and grown to.
Cex_C34 ==
    phase = "open" =>
        /\ Len(FreeList) + Cardinality(live) = cap
        /\ Range(FreeList) \cap live = {}

\* C35: pool_sz * chunk_sz is the size in bytes of the array chunk_arr
\* points to, and after a pool_resize(pool, n) that returned true pool_sz
\* is n.
Cex_C35 ==
    phase = "open" =>
        /\ ByteSize(pool_sz, chunk_sz) = mem[chunk_arr].bytes
        /\ (last.op = "resize" /\ last.ok) => pool_sz = last.n

\* C36: no pool_resize call on an open pool is left walking the old free
\* list without end.
Cex_C36 ==
    [][(phase = "open" /\ last'.op = "resize") => phase' # "hung"]_vars

\* C37: the second of two pool_free calls in a row on the same pointer p is
\* accepted like the first and leaves p at the head with its next-pointer
\* referring to p itself; and while the head is a chunk whose next-pointer
\* refers to itself, pool_alloc returns that chunk and leaves the head and
\* the chunk memory as they are, so every later pool_alloc returns it too.
Thm_C37 ==
    [][/\ (phase = "open" /\ last.op = "free" /\ last'.op = "free"
              /\ last'.p = last.p) =>
             /\ phase' = "open"
             /\ last' = last
             /\ free_chunk' = last.p
             /\ Load(mem', last.p, chunk_sz) = last.p
       /\ (phase = "open" /\ InBlock(mem, free_chunk, chunk_sz)
              /\ Load(mem, free_chunk, chunk_sz) = free_chunk
              /\ last'.op = "alloc") =>
             /\ phase' = "open"
             /\ last'.ok
             /\ last'.ret = free_chunk
             /\ free_chunk' = free_chunk
             /\ mem' = mem]_vars

\* Both chunks of a pool were allocated, one was freed twice, and a
\* pool_alloc has returned it while it stays the head.
Wit_C37 ==
    /\ phase = "open"
    /\ obs = "misuse"
    /\ pool_sz = 2
    /\ Cardinality(live) = 2
    /\ last.op = "alloc"
    /\ last.ret = free_chunk
    /\ free_chunk \in live
    /\ Load(mem, free_chunk, chunk_sz) = free_chunk
    /\ shadow[free_chunk].w = free_chunk

\* C38: whenever pool_new(pool_sz, chunk_sz) returns a pool, the last chunk
\* offset it wrote, (pool_sz - 1) * chunk_sz, plus the width of a pointer
\* lies within the pool_sz * chunk_sz bytes (as size_t) it asked for.
Cex_C38 ==
    (last.op = "new" /\ last.ok) =>
        (last.n - 1) * last.sz + PtrSize <= ByteSize(last.n, last.sz)

====
